---- MODULE Spec2Model ----
(***************************************************************************)
(* Poll lifecycle and voting engine of the Telegram voting bot             *)
(* (src/telegram_voting_bot/bot.py).  The bot is one asyncio event loop:   *)
(* the code of a handler between two awaits runs without interruption, and *)
(* a handler suspended at an await lets any other handler or job run.      *)
(* Every action below is one such uninterrupted segment.  An await after   *)
(* which a handler touches no poll any more (the final answer, the         *)
(* notifications of a manual end) is part of the segment before it.        *)
(***************************************************************************)
EXTENDS Integers, Sequences, FiniteSets, TLC

\* ------------------------------------------------------------------ bounds
MaxTime == 2        \* the clock runs from 0 to MaxTime
MaxDuration == 1    \* largest explicit duration argument of /startpoll
MaxOptions == 2     \* largest number of options of a poll

PollIds == {1}      \* the ids of the polls created in one behaviour
Users == {1, 2}     \* Telegram user ids
Chats == {1}        \* Telegram chat ids
MaxPolls == Cardinality(PollIds)

\* ------------------------------------------------------- program constants
DEFAULT_POLL_DURATION_MINUTES == 5

\* Python's None for end_time and message_id (timestamps and ids are >= 0).
None == -1

OptionNames == <<"A", "B", "C", "D", "E">>

\* The keys of a votes dict.  The handlers insert the integer user id; a dict
\* that went through JSON has text keys, and 7 and "7" are different keys.
IntKey(u) == <<"int", u>>
StrKey(u) == <<"str", u>>
KeyUser(k) == k[2]

VARIABLES
    polls_data,  \* sequence of poll records; a poll's id is its position
    now,         \* datetime.now()
    announcing,  \* polls whose /startpoll handler awaits the announcement
    sweeper,     \* the check_active_polls job: pc, remaining items, current
    reply,       \* the last answer a handler produced
    file,        \* DATA_FILE
    notices,     \* the closure notifications the job has attempted in this run
    process,     \* the bot process: "stopped", "running", "crashed", "exited"
    jobs,        \* the repeating jobs of the job queue
    log          \* the last line load_polls_data or save_polls_data logged

vars == <<polls_data, now, announcing, sweeper, reply, file, notices, process, jobs, log>>

NoReply == [op |-> "none", outcome |-> "none", text |-> ""]
\* DATA_FILE: whether it exists, what its text is ("object": a JSON object of
\* poll records; "array": JSON whose top level is a list; "undecodable": not
\* JSON, as an empty file or the beginning of a JSON text), and the records.
NoFile == [exists |-> FALSE, form |-> "object", data |-> <<>>]
AllJobs == {"check_active_polls", "scheduled_save_data"}
IdleSweeper == [pc |-> "idle", items |-> <<>>, cur |-> 0]
\* run_repeating(check_active_polls, interval=60, first=0): the first run of a
\* new process is due as soon as its job queue starts.
DueSweeper == [pc |-> "due", items |-> <<>>, cur |-> 0]

\* ------------------------------------------------------------ poll records
Exists(pd, poll_id) == poll_id \in 1..Len(pd)

SetPoll(pd, poll_id, poll) == [pd EXCEPT ![poll_id] = poll]

\* Mutant: the id is not fresh.
generate_poll_id_first(pd) == 1

\* uuid.uuid4().hex: 122 random bits, taken as an id no poll of the store has;
\* here the next position.
generate_poll_id(pd) == Len(pd) + 1

\* Mutant: the record is built with a message reference.
NewPoll_with_message_id(chat_id, creator_id, n_options, start_time, end_time) ==
    [chat_id |-> chat_id,
     creator_id |-> creator_id,
     topic |-> "T",
     options |-> SubSeq(OptionNames, 1, n_options),
     start_time |-> start_time,
     end_time |-> end_time,
     status |-> "active",
     votes |-> <<>>,
     message_id |-> 0]

\* Mutant: the record is built without the last option.
NewPoll_without_last_option(chat_id, creator_id, n_options, start_time, end_time) ==
    [chat_id |-> chat_id,
     creator_id |-> creator_id,
     topic |-> "T",
     options |-> SubSeq(OptionNames, 1, n_options - 1),
     start_time |-> start_time,
     end_time |-> end_time,
     status |-> "active",
     votes |-> <<>>,
     message_id |-> None]

NewPoll(chat_id, creator_id, n_options, start_time, end_time) ==
    [chat_id |-> chat_id,
     creator_id |-> creator_id,
     topic |-> "T",
     options |-> SubSeq(OptionNames, 1, n_options),
     start_time |-> start_time,
     end_time |-> end_time,
     status |-> "active",
     votes |-> <<>>,
     message_id |-> None]

\* The voters of a votes dict, whatever the type of their key.
Voters(votes) == {KeyUser(k) : k \in DOMAIN votes}
KeysOf(votes, u) == {k \in DOMAIN votes : KeyUser(k) = u}

\* votes[key] = option_index on a dict: adds the key or overwrites its value.
DictSet(votes, key, value) ==
    [k \in DOMAIN votes \cup {key} |-> IF k = key THEN value ELSE votes[k]]

\* ------------------------------------------------------ persistence (JSON)
\* json.dump of a votes dict: the members in dict order, every key as text.
\* Text keys come from a load, so they precede the integer keys added since.
RECURSIVE JsonMembers(_, _, _)
JsonMembers(votes, kind, u) ==
    IF u \notin Users THEN <<>>
    ELSE (IF <<kind, u>> \in DOMAIN votes THEN <<<<u, votes[<<kind, u>>]>>>> ELSE <<>>)
         \o JsonMembers(votes, kind, u + 1)

JsonDumpVotes(votes) == JsonMembers(votes, "str", 1) \o JsonMembers(votes, "int", 1)

\* json.load of an object: text keys, and of a repeated key the last member.
RECURSIVE JsonLoadVotes(_)
JsonLoadVotes(members) ==
    IF members = <<>> THEN <<>>
    ELSE LET last == members[Len(members)]
         IN  DictSet(JsonLoadVotes(SubSeq(members, 1, Len(members) - 1)),
                     StrKey(last[1]), last[2])

IsoFormat(t) == <<"iso", t>>
\* datetime.fromisoformat raises ValueError on a text that is no ISO date.
IsIsoFormat(s) == s[1] = "iso"
FromIsoFormat(s) == s[2]
JsonNull == <<"null">>

convert_datetimes_to_iso(poll) ==
    [poll EXCEPT !.start_time = IsoFormat(poll.start_time),
                 !.end_time = IF poll.end_time # None THEN IsoFormat(poll.end_time)
                              ELSE JsonNull,
                 !.votes = JsonDumpVotes(poll.votes)]

convert_iso_to_datetimes(data) ==
    [data EXCEPT !.start_time = FromIsoFormat(data.start_time),
                 !.end_time = IF data.end_time # JsonNull THEN FromIsoFormat(data.end_time)
                              ELSE None,
                 !.votes = JsonLoadVotes(data.votes)]

\* Whether convert_iso_to_datetimes raises on a record: a timestamp text that
\* datetime.fromisoformat does not accept.
convert_iso_raises(data) ==
    \/ ~IsIsoFormat(data.start_time)
    \/ data.end_time # JsonNull /\ ~IsIsoFormat(data.end_time)

\* The exception the body of load_polls_data's try block raises, "none" if it
\* returns: json.load on a text that is not JSON, loaded_data.items() on a
\* list, fromisoformat on a malformed timestamp.
load_exception(f) ==
    IF f.form = "undecodable" THEN "JSONDecodeError"
    ELSE IF f.form = "array" THEN "AttributeError"
    ELSE IF \E i \in 1..Len(f.data) : convert_iso_raises(f.data[i]) THEN "ValueError"
    ELSE "none"

\* except (json.JSONDecodeError, IOError, TypeError)
load_caught(exception) == exception \in {"JSONDecodeError", "IOError", "TypeError"}

\* Whether load_polls_data lets an exception out, to main and out of it.
load_raises(f) ==
    f.exists /\ load_exception(f) # "none" /\ ~load_caught(load_exception(f))

\* What load_polls_data returns when it returns.
load_polls_data(f) ==
    IF ~f.exists \/ load_exception(f) # "none" THEN <<>>
    ELSE [i \in 1..Len(f.data) |-> convert_iso_to_datetimes(f.data[i])]

\* What load_polls_data logs.
load_log(f) ==
    IF ~f.exists THEN "info: not found"
    ELSE IF load_exception(f) = "none" THEN "none"
    ELSE IF load_caught(load_exception(f)) THEN "warning: error loading"
    ELSE "traceback"

\* DATA_FILE after a save that ran to its end.
save_polls_data(pd) ==
    [exists |-> TRUE, form |-> "object",
     data |-> [i \in 1..Len(pd) |-> convert_datetimes_to_iso(pd[i])]]

\* DATA_FILE after open(DATA_FILE, 'w') emptied it and json.dump wrote none or
\* only the beginning of the new text.
Truncated == [exists |-> TRUE, form |-> "undecodable", data |-> <<>>]

\* The results of the disk: the save runs to its end, open raises IOError and
\* the file stays as it is, or a write raises IOError after open emptied it.
IoResults == {"ok", "open fails", "write fails"}

\* Mutant: the save job never writes.
save_file_never_writes(f, pd, io) == f

save_file(f, pd, io) ==
    IF io = "ok" THEN save_polls_data(pd)
    ELSE IF io = "open fails" THEN f
    ELSE Truncated

save_log(io) == IF io = "ok" THEN "info: saved" ELSE "error: error saving"

\* ------------------------------------------------------------- the handlers
Result(pd, outcome, text) == [polls |-> pd, outcome |-> outcome, text |-> text]

IsInt(option_index_str) == option_index_str[1] = "int"
IntOf(option_index_str) == option_index_str[2]
OptionStrs == {<<"int", i>> : i \in (-1)..MaxOptions} \cup {<<"text", 0>>}

\* The checks of button_callback_handler, in the order of the code.
\* Mutant: the status check is missing.
vote_poll_active_always(poll) == TRUE

vote_poll_active(poll) == poll.status = "active"

vote_poll_expired(poll, t) == poll.end_time # None /\ t > poll.end_time

vote_already_voted(poll, user_id) == IntKey(user_id) \in DOMAIN poll.votes

vote_option_valid(poll, option_index) ==
    0 <= option_index /\ option_index < Len(poll.options)

\* Mutant: the vote is stored under a key made of the voter and the option.
vote_record_per_option(poll, user_id, option_index) ==
    [poll EXCEPT !.votes = DictSet(poll.votes, <<"int", user_id, option_index>>, option_index)]

\* Mutant: the vote is stored with the index after the one chosen.
vote_record_next_option(poll, user_id, option_index) ==
    [poll EXCEPT !.votes = DictSet(poll.votes, IntKey(user_id), option_index + 1)]

\* Mutant: the vote replaces the votes the poll had.
vote_record_alone(poll, user_id, option_index) ==
    [poll EXCEPT !.votes = DictSet(<<>>, IntKey(user_id), option_index)]

vote_record(poll, user_id, option_index) ==
    [poll EXCEPT !.votes = DictSet(poll.votes, IntKey(user_id), option_index)]

\* Mutant: the duplicate check and the option check come before the expiry check.
button_callback_vote_reordered(pd, poll_id, user_id, option_index_str, t) ==
    IF ~Exists(pd, poll_id) THEN Result(pd, "PollNotFound", "")
    ELSE LET poll == pd[poll_id] IN
    IF ~vote_poll_active(poll) THEN Result(pd, "PollNotActive", "")
    ELSE IF vote_already_voted(poll, user_id)
    THEN Result(pd, "AlreadyVoted", poll.options[poll.votes[IntKey(user_id)] + 1])
    ELSE IF ~IsInt(option_index_str) THEN Result(pd, "ProcessingError", "")
    ELSE LET option_index == IntOf(option_index_str) IN
    IF ~vote_option_valid(poll, option_index) THEN Result(pd, "InvalidOption", "")
    ELSE IF vote_poll_expired(poll, t)
    THEN Result(SetPoll(pd, poll_id, [poll EXCEPT !.status = "closed"]), "PollExpired", "")
    ELSE Result(SetPoll(pd, poll_id, vote_record(poll, user_id, option_index)),
                "Accepted", poll.options[option_index + 1])

\* Mutant: the lazy expiration also drops the end time.
vote_expire_clears_end(poll) == [poll EXCEPT !.status = "closed", !.end_time = None]

\* poll["status"] = "closed"
vote_expire(poll) == [poll EXCEPT !.status = "closed"]

\* button_callback_handler up to its await of query.answer(...): the vote.
button_callback_vote(pd, poll_id, user_id, option_index_str, t) ==
    IF ~Exists(pd, poll_id) THEN Result(pd, "PollNotFound", "")
    ELSE LET poll == pd[poll_id] IN
    IF ~vote_poll_active(poll) THEN Result(pd, "PollNotActive", "")
    ELSE IF vote_poll_expired(poll, t)
    THEN Result(SetPoll(pd, poll_id, vote_expire(poll)), "PollExpired", "")
    ELSE IF vote_already_voted(poll, user_id)
    THEN Result(pd, "AlreadyVoted", poll.options[poll.votes[IntKey(user_id)] + 1])
    ELSE IF ~IsInt(option_index_str) THEN Result(pd, "ProcessingError", "")
    ELSE LET option_index == IntOf(option_index_str) IN
    IF ~vote_option_valid(poll, option_index) THEN Result(pd, "InvalidOption", "")
    ELSE Result(SetPoll(pd, poll_id, vote_record(poll, user_id, option_index)),
                "Accepted", poll.options[option_index + 1])

\* What a handler answers: the outcome and, where the answer names one, the
\* option text.
Reply(op, outcome, text) == [op |-> op, outcome |-> outcome, text |-> text]

button_callback_handler(poll_id, user_id, option_index_str) ==
    /\ LET r == button_callback_vote(polls_data, poll_id, user_id, option_index_str, now)
       IN  /\ polls_data' = r.polls
           /\ reply' = Reply("vote", r.outcome, r.text)
    /\ UNCHANGED <<now, announcing, sweeper, file, notices, process, jobs, log>>

\* ---- /startpoll
QuotedCounts == 0..(MaxOptions + 1)
DurationArgs == {<<"none", 0>>, <<"text", 0>>} \cup {<<"int", d>> : d \in (-1)..MaxDuration}

\* The duration argument: an integer, absent, or text int() rejects.
duration_minutes(duration_arg) ==
    IF duration_arg[1] = "int" THEN duration_arg[2] ELSE DEFAULT_POLL_DURATION_MINUTES

\* Mutant: a negative duration is not rejected.
startpoll_duration_negative_never(duration_arg) == FALSE

\* `if duration_input < 0`, for an argument int() accepts.
startpoll_duration_negative(duration_arg) ==
    duration_arg[1] = "int" /\ duration_arg[2] < 0

\* Mutant: the end time is set whatever the duration.
startpoll_end_time_always(start_time, duration) == start_time + duration

\* `if duration_minutes > 0: end_time = start_time + timedelta(...)`, else None.
startpoll_end_time(start_time, duration) ==
    IF duration > 0 THEN start_time + duration ELSE None

\* polls_data[poll_id] = {...}: a new key is added at the end of the dict, an
\* existing key would have its record replaced.
polls_insert(pd, poll_id, poll) ==
    IF Exists(pd, poll_id) THEN SetPoll(pd, poll_id, poll) ELSE Append(pd, poll)

\* startpoll_command_handler up to the await that sends the announcement.
startpoll_create(pd, chat_id, creator_id, n_quoted, duration_arg, t) ==
    IF n_quoted = 0 \/ n_quoted < 3 THEN Result(pd, "ValidationError", "usage")
    ELSE LET n_options == n_quoted - 1 IN
    IF n_options < 2 THEN Result(pd, "ValidationError", "options")
    ELSE IF startpoll_duration_negative(duration_arg)
    THEN Result(pd, "ValidationError", "duration")
    ELSE LET start_time == t
             end_time == startpoll_end_time(start_time, duration_minutes(duration_arg))
             poll_id == generate_poll_id(pd)
         IN  Result(polls_insert(pd, poll_id,
                        NewPoll(chat_id, creator_id, n_options, start_time, end_time)),
                    "Created", "")

\* The id of the message Telegram returns for a poll's announcement.
MessageId(poll_id) == poll_id

\* After `sent_message = await update.message.reply_text(...)`.
startpoll_attach(pd, poll_id) ==
    SetPoll(pd, poll_id, [pd[poll_id] EXCEPT !.message_id = MessageId(poll_id)])

startpoll_command_handler(chat_id, creator_id, n_quoted, duration_arg) ==
    /\ LET r == startpoll_create(polls_data, chat_id, creator_id, n_quoted, duration_arg, now)
       IN  /\ polls_data' = r.polls
           /\ reply' = Reply("startpoll", r.outcome, r.text)
           /\ announcing' = IF r.outcome = "Created"
                            THEN announcing \cup {generate_poll_id(polls_data)}
                            ELSE announcing
    /\ UNCHANGED <<now, sweeper, file, notices, process, jobs, log>>

\* The announcement was sent (sent = TRUE), or reply_text raised and the handler
\* ended there.
startpoll_announced(poll_id, sent) ==
    /\ poll_id \in announcing
    /\ polls_data' = IF sent THEN startpoll_attach(polls_data, poll_id) ELSE polls_data
    /\ announcing' = announcing \ {poll_id}
    /\ UNCHANGED <<now, sweeper, reply, file, notices, process, jobs, log>>

\* ---- /endpoll and the menu's "Yes, End Poll" button
\* Mutant: anyone may end a poll.
end_is_creator_anyone(poll, user_id) == TRUE

end_is_creator(poll, user_id) == poll.creator_id = user_id

\* Mutant: a poll that has ended is ended again.
end_poll_active_always(poll) == TRUE

end_poll_active(poll) == poll.status = "active"

\* Mutant: a manual end resets the start of the poll.
end_poll_restarts(poll, t) ==
    [poll EXCEPT !.status = "ended_manually", !.end_time = t, !.start_time = t]

end_poll(poll, t) == [poll EXCEPT !.status = "ended_manually", !.end_time = t]

\* Mutant: /endpoll looks at the status before it looks at the requester.
endpoll_command_end_status_first(pd, poll_id, user_id, t) ==
    IF ~Exists(pd, poll_id) THEN Result(pd, "PollNotFound", "")
    ELSE LET poll == pd[poll_id] IN
    IF ~end_poll_active(poll) THEN Result(pd, "PollNotActive", "")
    ELSE IF ~end_is_creator(poll, user_id) THEN Result(pd, "NotCreator", "")
    ELSE Result(SetPoll(pd, poll_id, end_poll(poll, t)), "Ended", "")

endpoll_command_end(pd, poll_id, user_id, t) ==
    IF ~Exists(pd, poll_id) THEN Result(pd, "PollNotFound", "")
    ELSE LET poll == pd[poll_id] IN
    IF ~end_is_creator(poll, user_id) THEN Result(pd, "NotCreator", "")
    ELSE IF ~end_poll_active(poll) THEN Result(pd, "PollNotActive", "")
    ELSE Result(SetPoll(pd, poll_id, end_poll(poll, t)), "Ended", "")

\* Mutant: the menu's end leaves the end time as it was.
end_poll_execute_end_keeps_end_time(pd, poll_id, user_id, t) ==
    IF ~Exists(pd, poll_id) THEN Result(pd, "PollNotFound", "")
    ELSE LET poll == pd[poll_id] IN
    IF poll.creator_id # user_id THEN Result(pd, "NotCreator", "")
    ELSE IF poll.status # "active" THEN Result(pd, "PollNotActive", "")
    ELSE Result(SetPoll(pd, poll_id, [poll EXCEPT !.status = "ended_manually"]),
                "Ended", "")

end_poll_execute_end(pd, poll_id, user_id, t) ==
    IF ~Exists(pd, poll_id) THEN Result(pd, "PollNotFound", "")
    ELSE LET poll == pd[poll_id] IN
    IF poll.creator_id # user_id THEN Result(pd, "NotCreator", "")
    ELSE IF poll.status # "active" THEN Result(pd, "PollNotActive", "")
    ELSE Result(SetPoll(pd, poll_id,
                    [poll EXCEPT !.status = "ended_manually", !.end_time = t]),
                "Ended", "")

endpoll_command_handler(poll_id, user_id) ==
    /\ LET r == endpoll_command_end(polls_data, poll_id, user_id, now)
       IN  /\ polls_data' = r.polls
           /\ reply' = Reply("endpoll", r.outcome, r.text)
    /\ UNCHANGED <<now, announcing, sweeper, file, notices, process, jobs, log>>

end_poll_execute_callback(poll_id, user_id) ==
    /\ LET r == end_poll_execute_end(polls_data, poll_id, user_id, now)
       IN  /\ polls_data' = r.polls
           /\ reply' = Reply("endmenu", r.outcome, r.text)
    /\ UNCHANGED <<now, announcing, sweeper, file, notices, process, jobs, log>>

\* ---- the check_active_polls job
\* The for loop over list(polls_data.items()) from the current item up to the
\* next await, or to its end.  The items are references to the live records.
\* Mutant: the job looks at end_time alone, not at the status.
sweep_poll_due_any_status(poll, t) == poll.end_time # None /\ t >= poll.end_time

\* Mutant: the job also closes polls that were closed by another path.
sweep_poll_due_not_swept(poll, t) ==
    poll.status # "ended_time_expired" /\ poll.end_time # None /\ t >= poll.end_time

\* Mutant: the job waits until the end time has passed.
sweep_poll_due_strict(poll, t) ==
    poll.status = "active" /\ poll.end_time # None /\ t > poll.end_time

\* Mutant: the job closes a poll again in every run after its end time.
sweep_poll_due_again(poll, t) ==
    /\ poll.status \in {"active", "ended_time_expired"}
    /\ poll.end_time # None /\ t >= poll.end_time

\* Mutant: the job does not ask whether the poll has an end time.
sweep_poll_due_no_limit(poll, t) == poll.status = "active" /\ t >= poll.end_time

sweep_poll_due(poll, t) ==
    poll.status = "active" /\ poll.end_time # None /\ t >= poll.end_time

\* Mutant: the loop ends at the first poll that is not due.
sweep_loop_stop_early(pd, items, t) ==
    IF items = <<>> \/ ~sweep_poll_due(pd[Head(items)], t)
    THEN [polls |-> pd, sweeper |-> IdleSweeper]
    ELSE [polls |-> SetPoll(pd, Head(items),
                       [pd[Head(items)] EXCEPT !.status = "ended_time_expired"]),
          sweeper |-> [pc |-> "send", items |-> Tail(items), cur |-> Head(items)]]

RECURSIVE sweep_loop(_, _, _)
sweep_loop(pd, items, t) ==
    IF items = <<>> THEN [polls |-> pd, sweeper |-> IdleSweeper]
    ELSE LET poll_id == Head(items)
             poll == pd[poll_id]
         IN  IF sweep_poll_due(poll, t)
             THEN [polls |-> SetPoll(pd, poll_id, [poll EXCEPT !.status = "ended_time_expired"]),
                   sweeper |-> [pc |-> "send", items |-> Tail(items), cur |-> poll_id]]
             ELSE sweep_loop(pd, Tail(items), t)

\* Mutant: an exception of a notification is not caught and ends the run.
sweep_resume_uncaught(pd, items, t, ok) ==
    IF ok THEN sweep_loop(pd, items, t) ELSE [polls |-> pd, sweeper |-> IdleSweeper]

\* The loop after a notification: `except Exception` logs a failure and the
\* loop goes on with the next item either way.
sweep_resume(pd, items, t, ok) == sweep_loop(pd, items, t)

\* A closure notification: what send_message is given, the message the edits
\* address (None until they start), and how the two attempts went.
NewNotice(pd, poll_id) ==
    [poll_id |-> poll_id,
     chat_id |-> pd[poll_id].chat_id,
     topic |-> pd[poll_id].topic,
     message_id |-> None,
     send |-> "pending",
     edit |-> "none"]

\* The notification the suspended job is waiting for.
CurNotice(ns, sw) ==
    CHOOSE n \in ns : n.poll_id = sw.cur /\ (n.send = "pending" \/ n.edit = "pending")

SetNotice(ns, old, new) == (ns \ {old}) \cup {new}

Outcome(ok) == IF ok THEN "ok" ELSE "failed"

\* The loop ran to its next `await bot.send_message(...)`, or to its end.
sweep_continue(ns, r) ==
    IF r.sweeper.pc = "send" THEN ns \cup {NewNotice(r.polls, r.sweeper.cur)} ELSE ns

check_active_polls ==
    /\ sweeper.pc \in {"idle", "due"}
    /\ LET r == sweep_loop(polls_data, [i \in 1..Len(polls_data) |-> i], now)
       IN  /\ polls_data' = r.polls
           /\ sweeper' = r.sweeper
           /\ notices' = sweep_continue(notices, r)
    /\ UNCHANGED <<now, announcing, reply, file, process, jobs, log>>

\* `await bot.send_message(...)` returned (ok) or raised (the except logs it).
check_active_polls_sent(ok) ==
    /\ sweeper.pc = "send"
    /\ LET poll == polls_data[sweeper.cur]
           n == CurNotice(notices, sweeper)
           sent == [n EXCEPT !.send = Outcome(ok)]
       IN  IF poll.message_id # None /\ poll.chat_id # 0
           THEN /\ sweeper' = [sweeper EXCEPT !.pc = "edit"]
                /\ notices' = SetNotice(notices, n,
                                  [sent EXCEPT !.edit = "pending",
                                               !.message_id = poll.message_id])
                /\ UNCHANGED polls_data
           ELSE LET r == sweep_resume(polls_data, sweeper.items, now, ok)
                IN  /\ polls_data' = r.polls
                    /\ sweeper' = r.sweeper
                    /\ notices' = sweep_continue(SetNotice(notices, n, sent), r)
    /\ UNCHANGED <<now, announcing, reply, file, process, jobs, log>>

\* The two message edits returned (ok) or one of them raised.
check_active_polls_edited(ok) ==
    /\ sweeper.pc = "edit"
    /\ LET n == CurNotice(notices, sweeper)
           r == sweep_resume(polls_data, sweeper.items, now, ok)
       IN  /\ polls_data' = r.polls
           /\ sweeper' = r.sweeper
           /\ notices' = sweep_continue(SetNotice(notices, n, [n EXCEPT !.edit = Outcome(ok)]), r)
    /\ UNCHANGED <<now, announcing, reply, file, process, jobs, log>>

\* ---- /pollhistory and /pollstats
\* Mutant: the history lists the active polls only.
pollhistory_active_only(pd, chat_id) ==
    LET chat_polls == {p \in 1..Len(pd) : pd[p].chat_id = chat_id /\ pd[p].status = "active"}
    IN  [outcome |-> IF chat_polls = {} THEN "NoPolls" ELSE "Listed",
         entries |-> [i \in 1..Cardinality(chat_polls) |->
                         LET p == CHOOSE q \in chat_polls :
                                      Cardinality({x \in chat_polls : x < q}) = i - 1
                         IN  [poll_id |-> p, status |-> pd[p].status,
                              votes_cast |-> Cardinality(DOMAIN pd[p].votes)]]]

\* sorted(..., key=start_time, reverse=True): newest first, polls with the
\* same start_time in the order of the dict.
history_before(pd, p, q) ==
    \/ pd[p].start_time > pd[q].start_time
    \/ (pd[p].start_time = pd[q].start_time /\ p < q)

\* What pollhistory_command_handler lists for a chat: one entry per poll of
\* the chat, whatever its status.
pollhistory(pd, chat_id) ==
    LET chat_polls == {p \in 1..Len(pd) : pd[p].chat_id = chat_id}
    IN  [outcome |-> IF chat_polls = {} THEN "NoPolls" ELSE "Listed",
         entries |-> [i \in 1..Cardinality(chat_polls) |->
                         LET p == CHOOSE q \in chat_polls :
                                      Cardinality({x \in chat_polls : history_before(pd, x, q)}) = i - 1
                         IN  [poll_id |-> p, status |-> pd[p].status,
                              votes_cast |-> Cardinality(DOMAIN pd[p].votes)]]]

\* /pollhistory in a chat.
pollhistory_command_handler(chat_id) ==
    /\ reply' = Reply("pollhistory", pollhistory(polls_data, chat_id).outcome, "")
    /\ UNCHANGED <<polls_data, now, announcing, sweeper, file, notices, process, jobs, log>>

RECURSIVE sum(_)
sum(counts) == IF counts = <<>> THEN 0 ELSE Head(counts) + sum(Tail(counts))

\* Mutant: the tally counts option_index at the position option_index of a
\* list that starts at 1.
tally_step_shifted(counts, option_index) ==
    IF 0 < option_index /\ option_index <= Len(counts)
    THEN [counts EXCEPT ![option_index] = @ + 1]
    ELSE counts

\* if 0 <= option_index < len(options): vote_counts[option_index] += 1
tally_step(counts, option_index) ==
    IF 0 <= option_index /\ option_index < Len(counts)
    THEN [counts EXCEPT ![option_index + 1] = @ + 1]
    ELSE counts

\* for voter_id, option_index in poll["votes"].items(), over the keys left.
RECURSIVE tally(_, _, _)
tally(counts, votes, keys) ==
    IF keys = {} THEN counts
    ELSE LET k == CHOOSE x \in keys : TRUE
         IN  tally(tally_step(counts, votes[k]), votes, keys \ {k})

\* The tally of pollstats_command_handler and of stats_execute_callback:
\* vote_counts = [0] * len(options), then the loop over the votes.
vote_counts(poll) ==
    tally([i \in 1..Len(poll.options) |-> 0], poll.votes, DOMAIN poll.votes)

\* (vote_counts[i] / total_votes) * 100 as ":.2f" prints it, in hundredths
\* of a percent (the nearest one).
percentage(count, total_votes) ==
    (2 * 10000 * count + total_votes) \div (2 * total_votes)

NoVotesText == "No votes have been cast yet."

\* Mutant: the message gives percentages whatever the total.
stats_message_always_percentages(counts, total_votes) ==
    [text |-> "percentages",
     percentages |-> [i \in 1..Len(counts) |->
                         IF total_votes > 0 THEN percentage(counts[i], total_votes) ELSE 0]]

\* The body of the statistics message: if total_votes == 0 the sentence, else
\* one line per option with its count and its percentage.
stats_message(counts, total_votes) ==
    IF total_votes = 0
    THEN [text |-> NoVotesText, percentages |-> <<>>]
    ELSE [text |-> "percentages",
          percentages |-> [i \in 1..Len(counts) |->
                              IF total_votes > 0 THEN percentage(counts[i], total_votes) ELSE 0]]

NoStats(outcome) ==
    [outcome |-> outcome, status |-> "", vote_counts |-> <<>>, total_votes |-> 0,
     text |-> "", percentages |-> <<>>, chart |-> FALSE]

\* What pollstats_command_handler and stats_execute_callback answer: the same
\* checks, tally and message in both.
pollstats(pd, poll_id, chat_id) ==
    IF ~Exists(pd, poll_id) THEN NoStats("PollNotFound")
    ELSE IF pd[poll_id].chat_id # chat_id THEN NoStats("WrongChat")
    ELSE LET counts == vote_counts(pd[poll_id])
             total_votes == sum(counts)
             message == stats_message(counts, total_votes)
         IN  [outcome |-> "Stats",
              status |-> pd[poll_id].status,
              vote_counts |-> counts,
              total_votes |-> total_votes,
              text |-> message.text,
              percentages |-> message.percentages,
              chart |-> total_votes > 0]

\* /pollstats <poll_id> in a chat.
pollstats_command_handler(poll_id, chat_id) ==
    /\ LET stats == pollstats(polls_data, poll_id, chat_id)
       IN  reply' = Reply("pollstats", stats.outcome, stats.text)
    /\ UNCHANGED <<polls_data, now, announcing, sweeper, file, notices, process, jobs, log>>

\* The button stats_execute_<poll_id>_<chart_type> of the menu, in a chat.
stats_execute_callback(poll_id, chat_id) ==
    /\ LET stats == pollstats(polls_data, poll_id, chat_id)
       IN  reply' = Reply("statsmenu", stats.outcome, stats.text)
    /\ UNCHANGED <<polls_data, now, announcing, sweeper, file, notices, process, jobs, log>>

\* ---- time, the save job, and a restart of the process
Tick ==
    /\ now < MaxTime
    /\ now' = now + 1
    /\ UNCHANGED <<polls_data, announcing, sweeper, reply, file, notices, process, jobs, log>>

\* Mutant: a failed save takes the save job off the job queue.
save_jobs_failure_unschedules(js, io) ==
    IF io = "ok" THEN js ELSE js \ {"scheduled_save_data"}

\* The job queue after a run of the save job: save_polls_data catches the
\* IOError, the job returns and stays scheduled.
save_jobs(js, io) == js

\* One run of the save job, every 300 seconds.
scheduled_save_data(io) ==
    /\ process = "running"
    /\ "scheduled_save_data" \in jobs
    /\ file' = save_file(file, polls_data, io)
    /\ log' = save_log(io)
    /\ jobs' = save_jobs(jobs, io)
    /\ UNCHANGED <<polls_data, now, announcing, sweeper, reply, notices, process>>

\* main(): the memory of a new process, the load, the two repeating jobs, and
\* run_polling; an exception that load_polls_data lets out ends the process.
main ==
    /\ polls_data' = load_polls_data(file)
    /\ announcing' = {}
    /\ sweeper' = IF load_raises(file) THEN IdleSweeper ELSE DueSweeper
    /\ reply' = NoReply
    /\ notices' = {}
    /\ process' = IF load_raises(file) THEN "crashed" ELSE "running"
    /\ jobs' = IF load_raises(file) THEN {} ELSE AllJobs
    /\ log' = load_log(file)
    /\ UNCHANGED <<now, file>>

\* The process stops (every suspended handler with it) and main() starts anew.
Restart == process = "running" /\ main

\* main() of a new process, after the last one was killed or shut down.
Start == process \in {"stopped", "exited"} /\ main

\* The memory of a process is gone with it.
ProcessEnds(state) ==
    /\ process = "running"
    /\ process' = state
    /\ jobs' = {}
    /\ polls_data' = <<>>
    /\ announcing' = {}
    /\ sweeper' = IdleSweeper
    /\ reply' = NoReply
    /\ notices' = {}
    /\ UNCHANGED <<now, log>>

\* The process is killed, or the machine loses power, outside a save.
Kill == ProcessEnds("stopped") /\ UNCHANGED file

\* The same while save_polls_data is between open(DATA_FILE, 'w') and the end
\* of json.dump.
KillDuringSave ==
    /\ "scheduled_save_data" \in jobs
    /\ ProcessEnds("stopped")
    /\ file' = Truncated

\* SIGINT or SIGTERM: run_polling stops the application and its job queue and
\* returns, and main() returns after it.
Shutdown == ProcessEnds("exited") /\ UNCHANGED file

\* ------------------------------------------------------------ specification
Init ==
    /\ polls_data = <<>>
    /\ now = 0
    /\ announcing = {}
    /\ sweeper = IdleSweeper
    /\ reply = NoReply
    /\ file = NoFile
    /\ notices = {}
    /\ process = "running"
    /\ jobs = AllJobs
    /\ log = "info: not found"

\* The steps of one process run in which the users of `voters` press buttons.
Run(voters) ==
    \/ \E c \in Chats, u \in Users, n \in QuotedCounts, d \in DurationArgs :
           Len(polls_data) < MaxPolls /\ startpoll_command_handler(c, u, n, d)
    \/ \E p \in PollIds, sent \in BOOLEAN : startpoll_announced(p, sent)
    \/ \E p \in PollIds, u \in voters, o \in OptionStrs : button_callback_handler(p, u, o)
    \/ \E p \in PollIds, u \in Users : endpoll_command_handler(p, u)
    \/ \E p \in PollIds, u \in Users : end_poll_execute_callback(p, u)
    \/ check_active_polls
    \/ \E ok \in BOOLEAN : check_active_polls_sent(ok)
    \/ \E ok \in BOOLEAN : check_active_polls_edited(ok)
    \/ Tick

Next == Run(Users)

Spec == Init /\ [][Next]_vars

\* The process with the save job and restarts; one user votes.
NextRestart ==
    \/ Run({1})
    \/ scheduled_save_data("ok")
    \/ Restart

SpecRestart == Init /\ [][NextRestart]_vars

\* Two polls of one chat and the job that closes them: user 1 creates polls
\* with and without a time limit and ends them, user 2 presses the first button.
SweepPollIds == {1, 2}
SweepDurations == {<<"int", d>> : d \in 0..MaxDuration}

NextSweep ==
    \/ \E d \in SweepDurations :
           /\ Len(polls_data) < Cardinality(SweepPollIds)
           /\ startpoll_command_handler(1, 1, MaxOptions + 1, d)
    \/ \E p \in SweepPollIds, sent \in BOOLEAN : startpoll_announced(p, sent)
    \/ \E p \in SweepPollIds : button_callback_handler(p, 2, <<"int", 0>>)
    \/ \E p \in SweepPollIds : endpoll_command_handler(p, 1)
    \/ check_active_polls
    \/ \E ok \in BOOLEAN : check_active_polls_sent(ok)
    \/ \E ok \in BOOLEAN : check_active_polls_edited(ok)
    \/ Tick

SpecSweep == Init /\ [][NextSweep]_vars

\* The job queue runs check_active_polls every 60 seconds, and a request to
\* Telegram returns or raises within its timeouts.
SweepFairness ==
    /\ WF_vars(check_active_polls)
    /\ WF_vars(\E ok \in BOOLEAN : check_active_polls_sent(ok))
    /\ WF_vars(\E ok \in BOOLEAN : check_active_polls_edited(ok))

SpecSweepFair == SpecSweep /\ SweepFairness

\* Creation: every shape of /startpoll by user 2, with polls in the store and
\* with an earlier /startpoll still waiting for its announcement.
NextCreate ==
    \/ \E c \in Chats, n \in QuotedCounts, d \in DurationArgs :
           /\ \/ Len(polls_data) < Cardinality(SweepPollIds)
              \/ startpoll_create(polls_data, c, 2, n, d, now).outcome # "Created"
           /\ startpoll_command_handler(c, 2, n, d)
    \/ \E p \in SweepPollIds, sent \in BOOLEAN : startpoll_announced(p, sent)
    \/ Tick

SpecCreate == Init /\ [][NextCreate]_vars

\* Persistence: the process is started on whatever DATA_FILE holds, user 1
\* creates a poll and user 2 presses its first button, the save job runs with
\* every result of the disk, and the process is killed, shut down and started
\* again.
BadTimestamp == <<"text", 0>>
StartFiles ==
    {NoFile,
     Truncated,
     [exists |-> TRUE, form |-> "array", data |-> <<>>],
     save_polls_data(<<>>),
     save_polls_data(<<NewPoll(1, 1, MaxOptions, 0, None)>>),
     [save_polls_data(<<NewPoll(1, 1, MaxOptions, 0, None)>>)
          EXCEPT !.data[1].start_time = BadTimestamp]}

InitPersist ==
    /\ polls_data = <<>>
    /\ now = 0
    /\ announcing = {}
    /\ sweeper = IdleSweeper
    /\ reply = NoReply
    /\ file \in StartFiles
    /\ notices = {}
    /\ process = "stopped"
    /\ jobs = {}
    /\ log = "none"

NextPersist ==
    \/ Start
    \/ \E d \in SweepDurations :
           /\ process = "running"
           /\ Len(polls_data) < MaxPolls
           /\ startpoll_command_handler(1, 1, MaxOptions + 1, d)
    \/ \E p \in PollIds, sent \in BOOLEAN :
           process = "running" /\ startpoll_announced(p, sent)
    \/ \E p \in PollIds :
           process = "running" /\ button_callback_handler(p, 2, <<"int", 0>>)
    \/ \E io \in IoResults : scheduled_save_data(io)
    \/ Kill
    \/ KillDuringSave
    \/ Shutdown
    \/ Tick

SpecPersist == InitPersist /\ [][NextPersist]_vars

\* The job queue runs the save job every 300 seconds while the process runs,
\* and the disk does not refuse every write for ever.
SaveFairness == WF_vars(scheduled_save_data("ok"))

SpecPersistFair == SpecPersist /\ SaveFairness

\* Statistics: one poll of chat 1 by user 1, three users who press its
\* buttons, the manual end, the job, and the two statistics handlers asked in
\* chat 1 and in another chat for the poll and for an id no poll has.
StatsVoters == {1, 2, 3}
StatsChats == {1, 2}
StatsPollIds == {1, 2}
StatsButtons == {<<"int", i>> : i \in 0..(MaxOptions - 1)}

NextStats ==
    \/ \E d \in SweepDurations :
           /\ Len(polls_data) < MaxPolls
           /\ startpoll_command_handler(1, 1, MaxOptions + 1, d)
    \/ \E p \in PollIds, sent \in BOOLEAN : startpoll_announced(p, sent)
    \/ \E p \in PollIds, u \in StatsVoters, o \in StatsButtons :
           button_callback_handler(p, u, o)
    \/ \E p \in PollIds : endpoll_command_handler(p, 1)
    \/ \E p \in PollIds : end_poll_execute_callback(p, 1)
    \/ check_active_polls
    \/ \E ok \in BOOLEAN : check_active_polls_sent(ok)
    \/ \E ok \in BOOLEAN : check_active_polls_edited(ok)
    \/ \E p \in StatsPollIds, c \in StatsChats : pollstats_command_handler(p, c)
    \/ \E p \in StatsPollIds, c \in StatsChats : stats_execute_callback(p, c)
    \/ Tick

SpecStats == Init /\ [][NextStats]_vars

\* Two chats: user 1 creates polls without time limit in either chat and ends
\* them, user 2 presses their first button, and /pollhistory and /pollstats
\* are asked in either chat, /pollstats for every id.
NextChats ==
    \/ \E c \in StatsChats :
           /\ Len(polls_data) < Cardinality(StatsPollIds)
           /\ startpoll_command_handler(c, 1, MaxOptions + 1, <<"int", 0>>)
    \/ \E p \in StatsPollIds, sent \in BOOLEAN : startpoll_announced(p, sent)
    \/ \E p \in StatsPollIds : button_callback_handler(p, 2, <<"int", 0>>)
    \/ \E p \in StatsPollIds : endpoll_command_handler(p, 1)
    \/ \E c \in StatsChats : pollhistory_command_handler(c)
    \/ \E p \in StatsPollIds, c \in StatsChats : pollstats_command_handler(p, c)
    \/ Tick

SpecChats == Init /\ [][NextChats]_vars

\* Voting on two polls: user 1 creates them with and without a time limit,
\* and both users press the first button and a button past the last option.
VoteButtons == {<<"int", 0>>, <<"int", MaxOptions>>}

NextVote ==
    \/ \E d \in SweepDurations :
           /\ Len(polls_data) < Cardinality(SweepPollIds)
           /\ startpoll_command_handler(1, 1, MaxOptions + 1, d)
    \/ \E p \in SweepPollIds : startpoll_announced(p, TRUE)
    \/ \E p \in SweepPollIds, u \in Users, o \in VoteButtons :
           button_callback_handler(p, u, o)
    \/ Tick

SpecVote == Init /\ [][NextVote]_vars

\* Downtime: user 1 creates polls and ends them, user 2 presses the first
\* button, the save job writes the file, the process is killed and started
\* again.  Time passes only while no process runs, so a poll whose time is up
\* in a running process is one whose end_time passed while the process was
\* down.  The first run of check_active_polls (first=0) precedes the handlers,
\* and the first run of the save job (first=300) follows it.
NextReboot ==
    \/ \E d \in SweepDurations :
           /\ process = "running" /\ sweeper.pc # "due"
           /\ Len(polls_data) < Cardinality(SweepPollIds)
           /\ startpoll_command_handler(1, 1, MaxOptions + 1, d)
    \/ \E p \in SweepPollIds :
           process = "running" /\ sweeper.pc # "due" /\ startpoll_announced(p, TRUE)
    \/ \E p \in SweepPollIds :
           /\ process = "running" /\ sweeper.pc # "due"
           /\ button_callback_handler(p, 2, <<"int", 0>>)
    \/ \E p \in SweepPollIds :
           process = "running" /\ sweeper.pc # "due" /\ endpoll_command_handler(p, 1)
    \/ process = "running" /\ check_active_polls
    \/ \E ok \in BOOLEAN : process = "running" /\ check_active_polls_sent(ok)
    \/ \E ok \in BOOLEAN : process = "running" /\ check_active_polls_edited(ok)
    \/ sweeper.pc = "idle" /\ scheduled_save_data("ok")
    \/ Kill
    \/ Start
    \/ process # "running" /\ Tick

SpecReboot == Init /\ [][NextReboot]_vars

\* ------------------------------------------------------------------ claims
Poll(p) == polls_data[p]
PollAfter(p) == polls_data'[p]
Stored == 1..Len(polls_data)
EndStep(p, u) == endpoll_command_handler(p, u) \/ end_poll_execute_callback(p, u)
EndReply == reply.op \in {"endpoll", "endmenu"}
\* The option buttons of a poll's announcement: callback data vote_<id>_<i>.
Buttons(p) == {<<"int", i>> : i \in 0..(Len(Poll(p).options) - 1)}
TimeIsUp(p) == Poll(p).end_time # None /\ now >= Poll(p).end_time

\* C1: after any interleaving of vote handlers, creations, manual ends and
\* sweeper ticks of one process run, no poll's votes dict holds more than one
\* entry for the same voter.
C1_OneEntryPerVoter ==
    \A p \in Stored, u \in Users : Cardinality(KeysOf(Poll(p).votes, u)) <= 1

\* A second attempt of a voter was answered "already voted".
C1_Witness ==
    /\ reply.op = "vote" /\ reply.outcome = "AlreadyVoted"
    /\ \E p \in Stored : Voters(Poll(p).votes) # {}

\* C2: a vote attempt by a voter who has an entry in the votes of an active,
\* unexpired poll, also after a save and a restart, is answered AlreadyVoted
\* and leaves votes unchanged.
C2_FirstVoteWins ==
    [][\A p \in Stored, u \in Users : \A o \in Buttons(p) :
         ( /\ button_callback_handler(p, u, o)
           /\ Poll(p).status = "active"
           /\ ~(Poll(p).end_time # None /\ now > Poll(p).end_time)
           /\ u \in Voters(Poll(p).votes) )
         => (reply'.outcome = "AlreadyVoted" /\ PollAfter(p).votes = Poll(p).votes)]_vars

\* C3: while a poll's status is not "active" its votes never change, and every
\* vote attempt on it is answered PollNotActive.
C3_NoVoteOnEndedPoll ==
    [][\A p \in Stored :
         Poll(p).status # "active"
         => /\ PollAfter(p).votes = Poll(p).votes
            /\ \A u \in Users, o \in OptionStrs :
                 button_callback_handler(p, u, o) => reply'.outcome = "PollNotActive"]_vars

\* A vote attempt on a manually ended poll that has votes was rejected.
C3_Witness ==
    /\ reply.op = "vote" /\ reply.outcome = "PollNotActive"
    /\ \E p \in Stored : Poll(p).status = "ended_manually" /\ Voters(Poll(p).votes) # {}

\* C4: a vote attempt on a poll with end_time <= now adds nothing to votes and
\* leaves the status different from "active".
C4_NoVoteAtOrAfterEnd ==
    [][\A p \in Stored, u \in Users : \A o \in Buttons(p) :
         (button_callback_handler(p, u, o) /\ Poll(p).end_time # None /\ Poll(p).end_time <= now)
         => (PollAfter(p).votes = Poll(p).votes /\ PollAfter(p).status # "active")]_vars

\* C5: the lazy expiration of a vote attempt sets the status the sweeper sets
\* for a poll whose time ran out, "ended_time_expired".
C5_LazyExpirySameStatus ==
    [][\A p \in Stored, u \in Users, o \in OptionStrs :
         ( /\ button_callback_handler(p, u, o)
           /\ Poll(p).status = "active"
           /\ reply'.outcome = "PollExpired" )
         => PollAfter(p).status = "ended_time_expired"]_vars

\* C6: a vote is decided by the first check that fails, in the order: poll
\* exists, status active, end_time passed, voter has voted, option index an
\* integer in range; else it is recorded.  So a voter who has voted is told
\* PollExpired on an expired active poll, and AlreadyVoted whatever the option.
C6_Expected(p, u, o) ==
    IF ~Exists(polls_data, p) THEN "PollNotFound"
    ELSE IF Poll(p).status # "active" THEN "PollNotActive"
    ELSE IF Poll(p).end_time # None /\ now > Poll(p).end_time THEN "PollExpired"
    ELSE IF u \in Voters(Poll(p).votes) THEN "AlreadyVoted"
    ELSE IF o[1] # "int" THEN "ProcessingError"
    ELSE IF o[2] < 0 \/ o[2] >= Len(Poll(p).options) THEN "InvalidOption"
    ELSE "Accepted"

C6_CheckOrder ==
    [][\A p \in PollIds, u \in Users, o \in OptionStrs :
         button_callback_handler(p, u, o)
         => /\ reply'.outcome = C6_Expected(p, u, o)
            /\ (reply'.outcome \notin {"Accepted", "PollExpired"} => polls_data' = polls_data)]_vars

\* Every user has voted on a poll, and a vote attempt was answered PollExpired.
C6_Witness ==
    /\ reply.op = "vote" /\ reply.outcome = "PollExpired"
    /\ \E p \in Stored : Voters(Poll(p).votes) = Users /\ Poll(p).status = "closed"

\* C7: a vote attempt at or after a poll's end_time, racing with the sweeper,
\* gets one outcome and is never recorded: PollExpired when it finds the poll
\* active (it ran before the sweep), PollNotActive when the sweep ran first.
C7_VoteSweepRace ==
    [][\A p \in Stored, u \in Users : \A o \in Buttons(p) :
         (button_callback_handler(p, u, o) /\ TimeIsUp(p))
         => /\ reply'.outcome = IF Poll(p).status = "active" THEN "PollExpired"
                                ELSE "PollNotActive"
            /\ PollAfter(p).votes = Poll(p).votes]_vars

\* C8: every change of a poll's status, end_time or votes is one whole
\* operation applied to the poll as it is in the state of the change: a vote
\* adds one entry for a voter without one on an active, unexpired poll; a
\* status leaves "active" once, by a lazy expiration, a sweep or a manual end,
\* each under its own condition in that state; nothing else changes, and the
\* answer given is the answer of that operation.
C8_AcceptedVote(p) ==
    /\ Poll(p).status = "active"
    /\ ~(Poll(p).end_time # None /\ now > Poll(p).end_time)
    /\ \E u \in Users \ Voters(Poll(p).votes), i \in 0..(Len(Poll(p).options) - 1) :
         PollAfter(p) = [Poll(p) EXCEPT !.votes = DictSet(Poll(p).votes, IntKey(u), i)]
    /\ reply'.op = "vote" /\ reply'.outcome = "Accepted"

C8_LazyExpiry(p) ==
    /\ Poll(p).status = "active"
    /\ Poll(p).end_time # None /\ now > Poll(p).end_time
    /\ PollAfter(p) = [Poll(p) EXCEPT !.status = "closed"]
    /\ reply'.op = "vote" /\ reply'.outcome = "PollExpired"

C8_Sweep(p) ==
    /\ Poll(p).status = "active"
    /\ Poll(p).end_time # None /\ now >= Poll(p).end_time
    /\ PollAfter(p) = [Poll(p) EXCEPT !.status = "ended_time_expired"]
    /\ reply' = reply

C8_ManualEnd(p) ==
    /\ Poll(p).status = "active"
    /\ PollAfter(p) = [Poll(p) EXCEPT !.status = "ended_manually", !.end_time = now]
    /\ reply'.op \in {"endpoll", "endmenu"} /\ reply'.outcome = "Ended"

C8_Core(poll) == <<poll.status, poll.end_time, poll.votes>>

C8_Serializable ==
    [][\A p \in Stored :
         C8_Core(PollAfter(p)) # C8_Core(Poll(p))
         => (C8_AcceptedVote(p) \/ C8_LazyExpiry(p) \/ C8_Sweep(p) \/ C8_ManualEnd(p))]_vars

\* The sweeper is suspended at the notification of a poll it has just expired
\* and a vote attempt that ran meanwhile was turned away.
C8_Witness ==
    /\ sweeper.pc \in {"send", "edit"}
    /\ reply.op = "vote" /\ reply.outcome = "PollNotActive"
    /\ Poll(sweeper.cur).status = "ended_time_expired"
    /\ Voters(Poll(sweeper.cur).votes) # {}

\* C9: a manual end, by the command or by the menu, changes a poll exactly
\* when the requester is its creator and its status is "active"; it then sets
\* status "ended_manually" and end_time to the current time; in every other
\* case no poll changes.
C9_ManualEnd ==
    [][\A p \in PollIds, u \in Users :
         EndStep(p, u)
         => IF Exists(polls_data, p) /\ Poll(p).creator_id = u /\ Poll(p).status = "active"
            THEN /\ polls_data' = [polls_data EXCEPT ![p] =
                                     [@ EXCEPT !.status = "ended_manually", !.end_time = now]]
                 /\ reply'.outcome = "Ended"
            ELSE /\ polls_data' = polls_data
                 /\ reply'.outcome # "Ended"]_vars

\* A poll with a scheduled end was ended by its creator before that time.
C9_Witness ==
    /\ EndReply /\ reply.outcome = "Ended"
    /\ \E p \in Stored : /\ Poll(p).status = "ended_manually"
                         /\ Poll(p).end_time = now
                         /\ Poll(p).end_time = Poll(p).start_time

\* C10: a manual end by the creator of a poll that was ended manually is
\* answered PollNotActive and changes nothing.
C10_SecondEnd ==
    [][\A p \in Stored, u \in Users :
         (EndStep(p, u) /\ Poll(p).status = "ended_manually" /\ Poll(p).creator_id = u)
         => (reply'.outcome = "PollNotActive" /\ polls_data' = polls_data)]_vars

\* A second end was refused at a later time than the first.
C10_Witness ==
    /\ EndReply /\ reply.outcome = "PollNotActive"
    /\ \E p \in Stored : Poll(p).status = "ended_manually" /\ Poll(p).end_time < now

\* ---- the job that closes polls (two polls)
SweepStep ==
    \/ check_active_polls
    \/ \E ok \in BOOLEAN : check_active_polls_sent(ok)
    \/ \E ok \in BOOLEAN : check_active_polls_edited(ok)

\* C11: a poll whose status has left "active" keeps that status in every later
\* step, whatever runs while the job is suspended at a notification.
C11_StatusOneWay ==
    [][\A p \in Stored :
         Poll(p).status # "active"
         => (p \in 1..Len(polls_data') /\ PollAfter(p).status = Poll(p).status)]_vars

\* The job is suspended at the notification of poll 1 with poll 2 still on its
\* list, and poll 2 has been ended by its creator or closed by a vote attempt.
C11_Witness ==
    /\ sweeper.pc \in {"send", "edit"} /\ sweeper.cur = 1 /\ sweeper.items = <<2>>
    /\ Poll(2).status \in {"ended_manually", "closed"}
    /\ Poll(2).end_time # None /\ reply.outcome \in {"Ended", "PollExpired"}

\* The polls the job looks at in a step: all of them when a run starts, the
\* rest of its list when it comes back from the notification of a poll.
C12_Examined ==
    IF sweeper.pc = "idle" THEN [i \in 1..Len(polls_data) |-> i]
    ELSE IF sweeper.pc = "send" /\ Poll(sweeper.cur).message_id # None THEN <<>>
    ELSE sweeper.items

C12_Due(p) ==
    Poll(p).status = "active" /\ Poll(p).end_time # None /\ Poll(p).end_time <= now

C12_DueAt == {i \in 1..Len(C12_Examined) : C12_Due(C12_Examined[i])}

C12_First == CHOOSE i \in C12_DueAt : \A j \in C12_DueAt : i <= j

\* C12: a step of the job examines its list up to the first poll that is
\* active with end_time <= now, sets that poll's status to
\* "ended_time_expired" and keeps the rest of the list for after the
\* notification; the polls before it are not due and stay as they are; with no
\* due poll the run ends; no other field of any poll changes.
C12_SweepExact ==
    [][SweepStep =>
         IF C12_DueAt = {}
         THEN /\ polls_data' = polls_data
              /\ (C12_Examined = <<>> \/ sweeper'.pc = "idle")
         ELSE /\ polls_data' = [polls_data EXCEPT
                                  ![C12_Examined[C12_First]].status = "ended_time_expired"]
              /\ sweeper'.cur = C12_Examined[C12_First]
              /\ sweeper'.items = SubSeq(C12_Examined, C12_First + 1, Len(C12_Examined))]_vars

\* One run of the job closed poll 2 and left poll 1, which has no time limit,
\* and a vote on it, as they were.
C12_Witness ==
    /\ Len(polls_data) = 2
    /\ Poll(1).status = "active" /\ Poll(1).end_time = None /\ Voters(Poll(1).votes) # {}
    /\ Poll(2).status = "ended_time_expired" /\ sweeper.cur = 2

\* C13: with the job running again and again, a poll that is active at or
\* after its end_time leaves the status "active".
C13_SweepEventually ==
    \A p \in SweepPollIds :
        (Exists(polls_data, p) /\ C12_Due(p))
        ~> (Exists(polls_data, p) /\ Poll(p).status # "active")

\* The job closed a poll nobody voted on or ended.
C13_Witness ==
    /\ reply.op = "startpoll"
    /\ \E p \in Stored : /\ Poll(p).status = "ended_time_expired"
                         /\ Poll(p).votes = <<>>
                         /\ sweeper.pc = "idle"

NoticesOf(p) == {n \in notices : n.poll_id = p}
C14_Failed == check_active_polls_sent(FALSE) \/ check_active_polls_edited(FALSE)
C14_RestDue == {i \in 1..Len(sweeper.items) : C12_Due(sweeper.items[i])}
C14_Next == CHOOSE i \in C14_RestDue : \A j \in C14_RestDue : i <= j

\* C14: when the send_message or the edits of a closed poll's notification
\* fail, the poll keeps the status "ended_time_expired", the failure is all
\* that is recorded, and the same run goes on: after a failed send to the edits
\* of a poll that has an announcement, else to the next poll of its list that
\* is active with end_time <= now, which it closes; no poll is left out.
C14_FailureKeepsTransition ==
    [][C14_Failed =>
         /\ Poll(sweeper.cur).status = "ended_time_expired"
         /\ PollAfter(sweeper.cur).status = "ended_time_expired"
         /\ \E n \in notices' : n.poll_id = sweeper.cur /\ "failed" \in {n.send, n.edit}
         /\ IF sweeper.pc = "send" /\ Poll(sweeper.cur).message_id # None
            THEN sweeper'.pc = "edit" /\ sweeper'.cur = sweeper.cur /\ polls_data' = polls_data
            ELSE IF C14_RestDue = {}
            THEN sweeper'.pc = "idle" /\ polls_data' = polls_data
            ELSE /\ PollAfter(sweeper.items[C14_Next]).status = "ended_time_expired"
                 /\ sweeper'.pc = "send" /\ sweeper'.cur = sweeper.items[C14_Next]]_vars

\* Both requests of poll 1's notification failed, and the job has closed
\* poll 2 after it.
C14_Witness ==
    /\ Len(polls_data) = 2
    /\ \E n \in NoticesOf(1) : n.send = "failed" /\ n.edit = "failed"
    /\ Poll(1).status = "ended_time_expired"
    /\ Poll(2).status = "ended_time_expired" /\ sweeper.cur = 2 /\ sweeper.pc = "send"

\* C15: a poll the job has closed has exactly one closure notification, begun
\* in the step that closed it, with the poll's chat id and topic and, once its
\* edits are attempted, the poll's message id; a poll the job has not closed
\* has none.
C15_NotifiedOnce ==
    \A p \in Stored :
        IF Poll(p).status = "ended_time_expired"
        THEN /\ Cardinality(NoticesOf(p)) = 1
             /\ \A n \in NoticesOf(p) :
                  /\ n.chat_id = Poll(p).chat_id /\ n.topic = Poll(p).topic
                  /\ n.edit # "none" => n.message_id = Poll(p).message_id
        ELSE NoticesOf(p) = {}

\* Two polls with different end times have been closed by the job and each
\* has its one notification, delivered.
C15_Witness ==
    /\ Len(polls_data) = 2 /\ sweeper.pc = "idle"
    /\ Poll(1).end_time # None /\ Poll(2).end_time # None
    /\ Poll(1).end_time < Poll(2).end_time
    /\ \A p \in {1, 2} : /\ Poll(p).status = "ended_time_expired"
                          /\ \E n \in NoticesOf(p) : n.send = "ok" /\ n.edit = "ok"

\* ---- creation
C16_Valid(n, d) ==
    /\ n - 1 >= 2
    /\ d[1] \in {"none", "int"}
    /\ d[1] = "int" => d[2] >= 0

C16_Duration(d) == IF d[1] = "int" THEN d[2] ELSE DEFAULT_POLL_DURATION_MINUTES

\* C16: a /startpoll with a topic, at least two options and a duration that is
\* absent (the default) or a non-negative integer adds one poll with status
\* "active", no votes, start_time now, and end_time = start_time + duration
\* when the duration is > 0, None when it is 0.
C16_CreatedPoll ==
    [][\A c \in Chats, u \in Users, n \in QuotedCounts, d \in DurationArgs :
         (reply'.op = "startpoll" /\ C16_Valid(n, d) /\ startpoll_command_handler(c, u, n, d))
         => /\ reply'.outcome = "Created"
            /\ Len(polls_data') = Len(polls_data) + 1
            /\ LET poll == polls_data'[Len(polls_data')]
               IN  /\ poll.status = "active"
                   /\ poll.votes = <<>>
                   /\ poll.start_time = now
                   /\ poll.chat_id = c /\ poll.creator_id = u
                   /\ Len(poll.options) = n - 1
                   /\ IF C16_Duration(d) > 0
                      THEN poll.end_time = now + C16_Duration(d)
                      ELSE poll.end_time = None]_vars

\* A poll without a time limit was created after a poll with one.
C16_Witness ==
    /\ reply.op = "startpoll" /\ reply.outcome = "Created"
    /\ Len(polls_data) = 2
    /\ Poll(1).end_time = Poll(1).start_time + 1
    /\ Poll(2).end_time = None /\ Poll(2).start_time = now /\ Poll(2).votes = <<>>

C17_Invalid(n, d) == n - 1 < 2 \/ (d[1] = "int" /\ d[2] < 0)

\* C17: a /startpoll with fewer than two options or with a negative duration
\* is answered with a validation error and leaves polls_data as it is.
C17_RejectedCreation ==
    [][(\E c \in Chats, u \in Users, n \in QuotedCounts, d \in DurationArgs :
           C17_Invalid(n, d) /\ startpoll_command_handler(c, u, n, d))
         => /\ reply'.outcome = "ValidationError"
            /\ polls_data' = polls_data
            /\ announcing' = announcing]_vars

\* A /startpoll with a negative duration was rejected while the store held
\* two polls, one announced and one whose announcement is awaited.
C17_Witness ==
    /\ reply.op = "startpoll" /\ reply.outcome = "ValidationError" /\ reply.text = "duration"
    /\ Len(polls_data) = 2 /\ announcing = {2}
    /\ Poll(1).message_id # None /\ Poll(1).start_time < now

C19_Listed(pd, p) ==
    LET entries == pollhistory(pd, pd[p].chat_id).entries
    IN  \E i \in 1..Len(entries) :
            entries[i] = [poll_id |-> p, status |-> pd[p].status,
                          votes_cast |-> Cardinality(DOMAIN pd[p].votes)]

C20_RoundTrip ==
    [][(Restart /\ file = save_polls_data(polls_data)) => polls_data' = polls_data]_vars

\* A DATA_FILE from which the polls cannot be reconstructed: none, a text that
\* is not JSON, a top level that is no mapping, a malformed timestamp text.
C21_Unloadable ==
    \/ ~file.exists
    \/ file.form # "object"
    \/ \E i \in 1..Len(file.data) :
           \/ file.data[i].start_time[1] # "iso"
           \/ file.data[i].end_time[1] \notin {"iso", "null"}

\* C21: loading never fails fatally: when DATA_FILE is missing, cannot be
\* decoded or holds a record that cannot be reconstructed, main() starts the
\* service with an empty store and a logged notice.
C21_LoadNeverFatal ==
    [][(Start /\ C21_Unloadable) =>
           /\ process' = "running"
           /\ polls_data' = <<>>
           /\ log' \in {"info: not found", "warning: error loading"}]_vars

\* C22: a crash at any point during a save leaves in DATA_FILE the complete
\* previous snapshot or the complete new one, never a partial text.
C22_SaveAtomic ==
    [][KillDuringSave => file' \in {file, save_polls_data(polls_data)}]_vars

\* C23: a save that fails with an I/O error does not end the process, leaves
\* the polls in memory as they are, and leaves the save job on the job queue,
\* which runs it again at its next interval.
C23_FailedSave ==
    [][\A io \in IoResults \ {"ok"} :
           scheduled_save_data(io) =>
               /\ process' = "running"
               /\ polls_data' = polls_data
               /\ "scheduled_save_data" \in jobs'
               /\ log' = "error: error saving"]_vars

C23_Witness ==
    /\ process = "running"
    /\ log = "error: error saving"
    /\ file = Truncated
    /\ polls_data # <<>>
    /\ "scheduled_save_data" \in jobs

\* What DATA_FILE holds of poll p, when it holds a complete snapshot with p.
C24_InFile(p) ==
    file.exists /\ file.form = "object" /\ p \in 1..Len(file.data)
C24_VoteInMemory(p, u) ==
    process = "running" /\ p \in Stored /\ IntKey(u) \in DOMAIN Poll(p).votes
C24_VoteInFile(p, u) ==
    C24_InFile(p) /\ \E i \in 1..Len(file.data[p].votes) : file.data[p].votes[i][1] = u
C24_ExpiredInMemory(p) ==
    process = "running" /\ p \in Stored /\ Poll(p).status = "closed"
C24_ExpiredInFile(p) ==
    C24_InFile(p) /\ file.data[p].status = "closed"

C25_FinalSave ==
    [][Shutdown => jobs' = {} /\ file' = save_polls_data(polls_data)]_vars

StatsStep(p, c) == pollstats_command_handler(p, c) \/ stats_execute_callback(p, c)
StatsReply == reply.op \in {"pollstats", "statsmenu"}
EntriesFor(p, i) == {k \in DOMAIN Poll(p).votes : Poll(p).votes[k] = i}

\* C26: for every poll of the store the statistics give one count per option,
\* in the order of the options, the count of option i is the number of votes
\* entries with index i, the total is the sum of the counts, and the total is
\* the number of entries of votes.
C26_Tally ==
    \A p \in Stored :
        LET stats == pollstats(polls_data, p, Poll(p).chat_id)
        IN  /\ stats.outcome = "Stats"
            /\ DOMAIN stats.vote_counts = 1..Len(Poll(p).options)
            /\ \A i \in 1..Len(Poll(p).options) :
                   stats.vote_counts[i] = Cardinality(EntriesFor(p, i - 1))
            /\ stats.total_votes = sum(stats.vote_counts)
            /\ stats.total_votes = Cardinality(DOMAIN Poll(p).votes)

\* A statistics handler has answered for a poll with the votes 0, 1, 0.
C26_Witness ==
    /\ StatsReply /\ reply.outcome = "Stats"
    /\ Len(polls_data) = 1
    /\ DOMAIN Poll(1).votes = {IntKey(u) : u \in StatsVoters}
    /\ {Poll(1).votes[IntKey(u)] : u \in {1, 3}} = {0} /\ Poll(1).votes[IntKey(2)] = 1
    /\ pollstats(polls_data, 1, 1).vote_counts =
           [i \in 1..MaxOptions |-> IF i = 1 THEN 2 ELSE IF i = 2 THEN 1 ELSE 0]
    /\ pollstats(polls_data, 1, 1).total_votes = 3
    /\ pollstats(polls_data, 1, 1).percentages =
           [i \in 1..MaxOptions |-> IF i = 1 THEN 6667 ELSE IF i = 2 THEN 3333 ELSE 0]

\* C27: a statistics handler that answers for a poll without votes says that
\* no votes have been cast, gives no percentage and draws no chart; it gives
\* one percentage per option exactly when the total is positive.
C27_NoVotes ==
    [][\A p \in StatsPollIds, c \in StatsChats :
           (StatsStep(p, c) /\ reply'.outcome = "Stats") =>
               LET stats == pollstats(polls_data, p, c)
               IN  IF DOMAIN Poll(p).votes = {}
                   THEN /\ stats.total_votes = 0
                        /\ reply'.text = NoVotesText
                        /\ stats.percentages = <<>>
                        /\ ~stats.chart
                   ELSE /\ stats.total_votes > 0
                        /\ reply'.text # NoVotesText
                        /\ Len(stats.percentages) = Len(Poll(p).options)]_vars

\* Both handlers' answer for a poll without votes, ended or not.
C27_Witness ==
    /\ reply.op = "statsmenu" /\ reply.outcome = "Stats" /\ reply.text = NoVotesText
    /\ Len(polls_data) = 1 /\ DOMAIN Poll(1).votes = {}
    /\ Poll(1).status # "active"

C28_InRange(poll, i) == 0 <= i /\ i < Len(poll.options)

\* C28: after every step every entry of every poll's votes is the index of one
\* of the poll's options; a press of a button whose index is negative or too
\* large records nothing, and is answered as an invalid option unless the
\* poll is not active, its time is up or the user has voted.
C28_IndexInRange ==
    [][/\ \A p \in 1..Len(polls_data') : \A k \in DOMAIN PollAfter(p).votes :
              C28_InRange(PollAfter(p), PollAfter(p).votes[k])
       /\ reply'.op = "vote" =>
              \A p \in Stored, u \in Users, o \in OptionStrs :
                  (/\ IsInt(o) /\ ~C28_InRange(Poll(p), IntOf(o))
                   /\ button_callback_handler(p, u, o)) =>
                      /\ PollAfter(p).votes = Poll(p).votes
                      /\ reply'.outcome \in
                             {"InvalidOption", "PollNotActive", "PollExpired", "AlreadyVoted"}
                      /\ (/\ Poll(p).status = "active"
                          /\ ~TimeIsUp(p)
                          /\ u \notin Voters(Poll(p).votes)) => reply'.outcome = "InvalidOption"]_vars

\* A press with an index out of range was answered as invalid, on a poll that
\* holds one user's vote for its last option.
C28_Witness ==
    /\ reply.op = "vote" /\ reply.outcome = "InvalidOption"
    /\ Len(polls_data) = 1
    /\ {Poll(1).votes[k] : k \in DOMAIN Poll(1).votes} = {MaxOptions - 1}

\* C29: every poll of the store has at least two options.
C29_TwoOptions == \A p \in Stored : Len(Poll(p).options) >= 2

\* Two polls are stored and a /startpoll with a topic and one option was
\* rejected.
C29_Witness ==
    /\ Len(polls_data) = 2
    /\ \E p \in Stored : Len(Poll(p).options) = 2
    /\ reply.op = "startpoll" /\ reply.outcome = "ValidationError"
    /\ reply.text \in {"usage", "options"}

\* C30: no step changes the chat, the creator, the topic, the options or the
\* start time of a poll of the store: not a vote, a manual end, a step of the
\* job, the attachment of the announcement, or a statistics query.
C30_Immutable ==
    [][\A p \in Stored :
           /\ Exists(polls_data', p)
           /\ PollAfter(p).chat_id = Poll(p).chat_id
           /\ PollAfter(p).creator_id = Poll(p).creator_id
           /\ PollAfter(p).topic = Poll(p).topic
           /\ PollAfter(p).options = Poll(p).options
           /\ PollAfter(p).start_time = Poll(p).start_time]_vars

\* A poll created at time 0 by user 1 in chat 1 got its announcement and a
\* vote, was ended by its creator, and its statistics were asked later.
C30_Witness ==
    /\ StatsReply /\ reply.outcome = "Stats"
    /\ Len(polls_data) = 1
    /\ Poll(1).status = "ended_manually"
    /\ Poll(1).message_id # None
    /\ DOMAIN Poll(1).votes # {}
    /\ Poll(1).chat_id = 1 /\ Poll(1).creator_id = 1 /\ Poll(1).topic = "T"
    /\ Poll(1).options = SubSeq(OptionNames, 1, MaxOptions)
    /\ Poll(1).start_time = 0 /\ now > 0

\* C31: a step changes the end_time of a poll of the store only if it is a
\* manual end that succeeded on the poll, which was active and is ended with
\* the time of the step as its end_time; a vote, accepted or rejected, its
\* lazy expiration and the job leave end_time as it is.  A poll that has been
\* ended is not active, so its end_time changes at most once.
C31_EndTimeOnce ==
    [][\A p \in Stored :
           PollAfter(p).end_time # Poll(p).end_time =>
               /\ reply'.op \in {"endpoll", "endmenu"} /\ reply'.outcome = "Ended"
               /\ \E u \in Users : EndStep(p, u)
               /\ Poll(p).status = "active"
               /\ PollAfter(p).status = "ended_manually"
               /\ PollAfter(p).end_time = now]_vars

\* A poll with a time limit was ended by its creator before its time, and a
\* later press of one of its buttons was rejected.
C31_Witness ==
    /\ Len(polls_data) = 1
    /\ Poll(1).status = "ended_manually"
    /\ Poll(1).end_time # None /\ Poll(1).end_time < now
    /\ DOMAIN Poll(1).votes # {}
    /\ reply.op = "vote" /\ reply.outcome = "PollNotActive"

\* C32: a poll enters the store without a message reference; a step changes
\* the reference of a poll of the store only if the poll had none and the step
\* is the return of the poll's own announcement, which sets the reference of
\* that message.
C32_MessageIdOnce ==
    [][/\ \A p \in 1..Len(polls_data') :
              p \notin Stored => PollAfter(p).message_id = None
       /\ \A p \in Stored :
              PollAfter(p).message_id # Poll(p).message_id =>
                  /\ Poll(p).message_id = None
                  /\ p \in announcing /\ p \notin announcing'
                  /\ startpoll_announced(p, TRUE)
                  /\ PollAfter(p).message_id = MessageId(p)]_vars

\* The poll got its reference and a vote, its time ran out, and the job
\* closed it and edited its announcement.
C32_Witness ==
    /\ Len(polls_data) = 1 /\ announcing = {}
    /\ Poll(1).message_id = MessageId(1)
    /\ Poll(1).status = "ended_time_expired"
    /\ DOMAIN Poll(1).votes # {}
    /\ \E n \in notices : n.poll_id = 1 /\ n.edit = "ok" /\ n.message_id = MessageId(1)

\* C33: a /startpoll with duration 0 stores a poll without end_time, and an
\* active poll without end_time stays active in every step, whatever the
\* time, except a manual end by its creator that succeeds.
C33_NoTimeLimit ==
    [][/\ \A p \in 1..Len(polls_data') :
              (p \notin Stored /\ startpoll_command_handler(1, 1, MaxOptions + 1, <<"int", 0>>))
                  => PollAfter(p).end_time = None /\ PollAfter(p).status = "active"
       /\ \A p \in Stored :
              (Poll(p).end_time = None /\ Poll(p).status = "active") =>
                  \/ PollAfter(p).status = "active" /\ PollAfter(p).end_time = None
                  \/ /\ endpoll_command_handler(p, Poll(p).creator_id)
                     /\ reply'.outcome = "Ended"
                     /\ PollAfter(p).status = "ended_manually"]_vars

\* A poll without time limit created at time 0 is active at the last time,
\* holds a vote accepted then, and the job has closed the other poll.
C33_Witness ==
    /\ Len(polls_data) = 2 /\ now = MaxTime /\ sweeper.pc = "idle"
    /\ \E p, q \in Stored :
           /\ Poll(p).end_time = None /\ Poll(p).status = "active"
           /\ Poll(p).start_time = 0
           /\ DOMAIN Poll(p).votes # {}
           /\ Poll(q).status = "ended_time_expired"
    /\ reply.op = "vote" /\ reply.outcome = "Accepted"

\* The store as a chat must see it: the polls of other chats blanked.
C34_Blank(chat_id) == [NewPoll(chat_id, 0, 2, 0, None) EXCEPT !.topic = ""]
C34_Scrub(pd, chat_id) ==
    [i \in 1..Len(pd) |-> IF pd[i].chat_id = chat_id THEN pd[i] ELSE C34_Blank(pd[i].chat_id)]

\* C34: /pollhistory in a chat lists polls of that chat only and is the same
\* whatever the polls of other chats hold; /pollstats in a chat for a poll of
\* another chat gives no topic, count or status, and answers what it answers
\* for an id that no poll has.
C34_ChatScoped ==
    \A c \in StatsChats :
        /\ LET history == pollhistory(polls_data, c)
           IN  /\ \A i \in 1..Len(history.entries) :
                      Poll(history.entries[i].poll_id).chat_id = c
               /\ history = pollhistory(C34_Scrub(polls_data, c), c)
        /\ \A p \in Stored :
               Poll(p).chat_id # c =>
                   LET stats == pollstats(polls_data, p, c)
                   IN  /\ stats.status = "" /\ stats.vote_counts = <<>>
                       /\ stats.percentages = <<>> /\ stats.text = ""
                       /\ stats = pollstats(polls_data, Len(polls_data) + 1, c)

\* What a manual end answers when it checks, in this order, that the poll
\* exists, that the requester is its creator, and that it is active.
C35_Expected(p, u) ==
    IF p \notin Stored THEN "PollNotFound"
    ELSE IF u # Poll(p).creator_id THEN "NotCreator"
    ELSE IF Poll(p).status # "active" THEN "PollNotActive"
    ELSE "Ended"

\* C35: /endpoll and the menu's end button answer by the checks in the order
\* exists, creator, active; a requester who is not the creator is answered
\* NotCreator whatever the status of the poll, and the poll stays as it is.
C35_EndCheckOrder ==
    [][reply'.op \in {"endpoll", "endmenu"} =>
           \A p \in PollIds, u \in Users :
               EndStep(p, u) =>
                   /\ reply'.outcome = C35_Expected(p, u)
                   /\ (p \in Stored /\ u # Poll(p).creator_id) =>
                          reply'.outcome = "NotCreator" /\ polls_data' = polls_data]_vars

\* A user who is not the creator asked to end a poll that a vote attempt or
\* the job had closed, and was told that only the creator can.
C35_Witness ==
    /\ Len(polls_data) = 1
    /\ Poll(1).status \in {"closed", "ended_time_expired"}
    /\ reply.op = "endpoll" /\ reply.outcome = "NotCreator"

\* C36: a vote attempt answered PollNotFound, PollNotActive, AlreadyVoted or
\* InvalidOption leaves every poll as it is; one answered PollExpired changes
\* the status of its poll and nothing else; an accepted one adds the entry of
\* the voter with the index pressed to the votes of its poll and changes
\* nothing else in the store.
C36_VoteFrame ==
    [][reply'.op = "vote" =>
           \A p \in SweepPollIds, u \in Users, o \in VoteButtons :
               button_callback_handler(p, u, o) =>
                   /\ reply'.outcome \in {"PollNotFound", "PollNotActive", "AlreadyVoted",
                                          "InvalidOption", "PollExpired", "Accepted"}
                   /\ reply'.outcome \in {"PollNotFound", "PollNotActive", "AlreadyVoted",
                                          "InvalidOption"} => polls_data' = polls_data
                   /\ reply'.outcome = "PollExpired" =>
                          /\ PollAfter(p).status # Poll(p).status
                          /\ polls_data' = [polls_data EXCEPT ![p].status = PollAfter(p).status]
                   /\ reply'.outcome = "Accepted" =>
                          /\ IntKey(u) \notin DOMAIN Poll(p).votes
                          /\ DOMAIN PollAfter(p).votes = DOMAIN Poll(p).votes \cup {IntKey(u)}
                          /\ PollAfter(p).votes[IntKey(u)] = IntOf(o)
                          /\ \A k \in DOMAIN Poll(p).votes :
                                 PollAfter(p).votes[k] = Poll(p).votes[k]
                          /\ polls_data' = [polls_data EXCEPT ![p].votes = PollAfter(p).votes]]_vars

\* Two polls: a vote attempt closed the second after its time, and the first
\* holds the votes of both users, the second of them just accepted.
C36_Witness ==
    /\ Len(polls_data) = 2
    /\ Poll(2).status = "closed"
    /\ Cardinality(DOMAIN Poll(1).votes) = 2
    /\ Poll(1).status = "active"
    /\ reply.op = "vote" /\ reply.outcome = "Accepted"

\* C37: in every state, for every poll id and requester, /endpoll leaves the
\* store and gives the outcome that the menu's end button would, and the
\* menu's end button those that /endpoll would.
C37_SameManualEnd ==
    [][reply'.op \in {"endpoll", "endmenu"} =>
           \A p \in PollIds, u \in Users :
               /\ endpoll_command_handler(p, u) =>
                      LET menu == end_poll_execute_end(polls_data, p, u, now)
                      IN  polls_data' = menu.polls /\ reply'.outcome = menu.outcome
               /\ end_poll_execute_callback(p, u) =>
                      LET command == endpoll_command_end(polls_data, p, u, now)
                      IN  polls_data' = command.polls /\ reply'.outcome = command.outcome]_vars

\* The creator ended a poll that holds a vote with the menu's button, after
\* the poll's start.
C37_Witness ==
    /\ Len(polls_data) = 1
    /\ reply.op = "endmenu" /\ reply.outcome = "Ended"
    /\ Poll(1).status = "ended_manually"
    /\ Poll(1).end_time = now /\ now > Poll(1).start_time
    /\ DOMAIN Poll(1).votes # {}

\* The closure announcement of poll p has been attempted in its chat and, if
\* the poll had a message reference then, the removal of its buttons.
C38_Announced(p) ==
    \E n \in NoticesOf(p) :
        /\ n.send \in {"ok", "failed"}
        /\ n.chat_id = Poll(p).chat_id
        /\ n.edit \in {"ok", "failed", "none"}

\* C38: a poll whose time ran out and that a vote attempt or the job took out
\* of the active status eventually has its closure announcement attempted and
\* its buttons removed.
C38_ClosureAnnounced ==
    \A p \in SweepPollIds :
        (p \in Stored /\ Poll(p).status \in {"closed", "ended_time_expired"})
            ~> (p \in Stored /\ C38_Announced(p))

\* A new process started and its load returned.
C39_Boot == process # "running" /\ process' = "running"
\* The file holds poll p with status Active and an end_time that has passed.
C39_SavedDue(f, p, t) ==
    /\ p \in 1..Len(f.data)
    /\ f.data[p].status = "active"
    /\ f.data[p].end_time # JsonNull
    /\ t >= FromIsoFormat(f.data[p].end_time)

\* A start loads every poll with the status the file holds.
C39_LoadedAsSaved ==
    [][C39_Boot =>
          /\ Len(polls_data') = Len(file.data)
          /\ \A p \in 1..Len(file.data) : PollAfter(p).status = file.data[p].status]_vars

\* No step of a running process gives a poll the status Active again.
C39_NotReopened ==
    [][process = "running" /\ process' = "running" =>
          \A p \in Stored : Poll(p).status # "active" => PollAfter(p).status # "active"]_vars

\* Once the first run of the job is over, no poll whose time is up is Active.
C39_FirstTickLeavesNone ==
    [](process = "running" /\ sweeper.pc = "idle" =>
          \A p \in Stored : TimeIsUp(p) => Poll(p).status # "active")

\* A poll whose time ran out during the downtime leaves Active for the
\* expired status only, unless its creator ends it first.
C39_ExpiredStatus ==
    [][process = "running" /\ process' = "running" =>
          \A p \in Stored :
              (TimeIsUp(p) /\ Poll(p).status = "active" /\ PollAfter(p).status # "active")
                  => PollAfter(p).status \in {"ended_time_expired", "ended_manually"}]_vars

\* No save writes as Active a poll whose time is up.
C39_NotSavedActive ==
    [][scheduled_save_data("ok") =>
          \A p \in 1..Len(file'.data) : ~C39_SavedDue(file', p, now)]_vars

\* C39: after a restart every poll that the file held as Active and whose
\* end_time passed during the downtime gets the status "ended_time_expired"
\* from the first run of the job, before a save writes it as Active again,
\* and a poll saved with another status is loaded with it and never re-opened.
C39_DowntimeExpiry ==
    /\ C39_LoadedAsSaved
    /\ C39_NotReopened
    /\ C39_FirstTickLeavesNone
    /\ C39_ExpiredStatus
    /\ C39_NotSavedActive

====
